---- MODULE Spec2Model ----
(***************************************************************************)
(* The audio-to-quiz pipeline of core/ai_modules.py: chunking, transcript  *)
(* assembly, text segmentation, summarisation, quiz extraction (decode,    *)
(* normalise, retry) and persistence.                                      *)
(*                                                                         *)
(* Strings are sequences of one-character strings.  Control is a program   *)
(* counter pc plus a stack of return labels, so that each function of the  *)
(* source can be run alone (its own specification, inputs drawn in Init)   *)
(* or as a callee of the pipeline (specification Spec).                    *)
(***************************************************************************)
EXTENDS Integers, Sequences, FiniteSets, TLC

VARIABLES
  pc,            \* position in the code
  stack,         \* return labels of the active calls
  exc,           \* the exception being raised, "none" when there is none
  \* ---- dynamic_split (ai_modules.py 104-121)
  text,          \* the argument, stripped on entry
  min_length,
  max_length,
  paragraphs,    \* re.split result
  para_i,        \* index of the next paragraph of the for loop
  temp,          \* the accumulator
  chunks,        \* the segments emitted so far; the return value
  \* ---- _prepare_audio_chunks (ai_modules.py 32-60)
  src_exists,    \* os.path.exists(src_path)
  decodable,     \* AudioSegment.from_file succeeds
  duration,      \* len(audio), milliseconds
  chunk_ms,
  overlap_ms,
  start,
  idx,
  paths,         \* the chunks written: <<[id, from, to]>>, the return value
  files,         \* the temporary chunk files that exist: a set of ids
  \* ---- normalize_mcq_payload / safe_json_parse (ai_modules.py 177-233)
  data,          \* the decoded payload handed to normalize_mcq_payload
  raw,           \* the raw response handed to safe_json_parse
  ret,           \* the value the function under study returned
  \* ---- transcribe_with_whisper (ai_modules.py 63-98)
  api_key_set,   \* OPENAI_API_KEY is configured
  tw_i,          \* index of the chunk the for loop is at
  pieces,        \* the stripped chunk texts so far
  requests,      \* what each transcription request did: <<[id, resp]>>
  transcript,    \* the return value: a string or None
  \* ---- the generation service and the quiz extractor (127-305)
  gen_calls,     \* the generation requests issued: <<[kind, arg, resp]>>
  summaries,
  final_summary,
  mcq_log,       \* the responses to the MCQ requests: <<[kind, resp]>>
  mcq_data,
  tf_data,
  \* ---- parse_and_store_questions (311-338)
  quiz_data,
  question_type,
  ps_items,      \* what iterating quiz_data yields
  ps_i,
  \* ---- process_audio_and_generate_quiz (344-376) and the record store
  lecture_id,
  num_mcq,
  num_tf,
  lecture,       \* the Lecture object in memory, None before the lookup
  db,            \* the stored lectures: id -> [transcript, summary]
  questions,     \* the stored Question records, in creation order
  runs           \* pipeline runs in progress side by side: run -> its locals

vCtl == <<pc, stack, exc>>
vSplit == <<text, min_length, max_length, paragraphs, para_i, temp, chunks>>
vChunk == <<src_exists, decodable, duration, chunk_ms, overlap_ms, start, idx,
            paths, files>>
vDecode == <<data, raw, ret>>
vTrans == <<api_key_set, tw_i, pieces, requests, transcript>>
vGen == <<gen_calls, summaries, final_summary, mcq_log, mcq_data, tf_data>>
vStore == <<quiz_data, question_type, ps_items, ps_i>>
vPipe == <<lecture_id, num_mcq, num_tf, lecture, db, questions>>
vars == <<vCtl, vSplit, vChunk, vDecode, vTrans, vGen, vStore, vPipe, runs>>

----------------------------------------------------------------------------
(* The variables an operation leaves alone, and their values in a           *)
(* specification that never runs the operation.                            *)

OtherThanSplit == <<vChunk, vDecode, vTrans, vGen, vStore, vPipe>>
OtherThanChunk == <<vSplit, vDecode, vTrans, vGen, vStore, vPipe>>
OtherThanDecode == <<vSplit, vChunk, vTrans, vGen, vStore, vPipe>>
OtherThanTrans == <<vSplit, vDecode, vGen, vStore, vPipe>>
OtherThanGen == <<vSplit, vChunk, vDecode, vTrans, vStore, vPipe>>
OtherThanStore == <<vSplit, vChunk, vDecode, vTrans, vGen>>

\* None, and the value of a variable not yet assigned.
JNull == [t |-> "null", v |-> 0]

IdleRuns == runs = <<>>

IdleDecode ==
  /\ data = JNull
  /\ raw = <<>>
  /\ ret = JNull

IdleLocals ==
  /\ api_key_set = TRUE
  /\ tw_i = 1
  /\ pieces = <<>>
  /\ requests = <<>>
  /\ transcript = JNull
  /\ gen_calls = <<>>
  /\ summaries = <<>>
  /\ final_summary = <<>>
  /\ mcq_log = <<>>
  /\ mcq_data = JNull
  /\ tf_data = JNull
  /\ quiz_data = JNull
  /\ question_type = ""
  /\ ps_items = <<>>
  /\ ps_i = 1
  /\ lecture_id = 0
  /\ num_mcq = 0
  /\ num_tf = 0
  /\ lecture = JNull

IdlePipeline ==
  /\ IdleLocals
  /\ db = <<>>
  /\ questions = <<>>

IdleSplit ==
  /\ text = <<>>
  /\ min_length = 0
  /\ max_length = 0
  /\ paragraphs = <<>>
  /\ para_i = 1
  /\ temp = <<>>
  /\ chunks = <<>>

IdleChunk ==
  /\ src_exists = TRUE
  /\ decodable = TRUE
  /\ duration = 0
  /\ chunk_ms = 1
  /\ overlap_ms = 0
  /\ start = 0
  /\ idx = 0
  /\ paths = <<>>
  /\ files = {}

----------------------------------------------------------------------------
(* Bounds of the model *)

MaxTextLen == 6
MaxSplitBound == 4
MaxDuration == 9
MaxChunkMs == 4
MaxItems == 2
MaxRaw == 4

----------------------------------------------------------------------------
(* Strings *)

\* The characters str.strip and the regex class \s remove: blank and newline.
IsSpace(c) == c \in {" ", "\n"}

\* The sentence-final set of the split pattern [。！？], written in ASCII.
Terminal == {".", "!", "?"}

SetMin(S) == CHOOSE x \in S : \A y \in S : x <= y
SetMax(S) == CHOOSE x \in S : \A y \in S : x >= y

\* str.lstrip(), str.rstrip(), str.strip()
LStrip(s) ==
  IF \A i \in 1..Len(s) : IsSpace(s[i]) THEN <<>>
  ELSE SubSeq(s, CHOOSE i \in 1..Len(s) :
                   ~IsSpace(s[i]) /\ \A j \in 1..(i - 1) : IsSpace(s[j]),
              Len(s))

RStrip(s) ==
  IF \A i \in 1..Len(s) : IsSpace(s[i]) THEN <<>>
  ELSE SubSeq(s, 1, CHOOSE i \in 1..Len(s) :
                      ~IsSpace(s[i]) /\ \A j \in (i + 1)..Len(s) : IsSpace(s[j]))

Strip(s) == RStrip(LStrip(s))

\* All strings over alphabet A of length at most n.
StringsUpTo(A, n) == UNION {[1..k -> A] : k \in 0..n}

\* re.split(r'(?<=[。！？])\s*', s): a cut after every sentence-final
\* character, the white space that follows it removed; a text that ends with
\* a sentence-final character yields a last, empty piece.
RECURSIVE SortedSeq(_)
SortedSeq(S) ==
  IF S = {} THEN <<>> ELSE <<SetMin(S)>> \o SortedSeq(S \ {SetMin(S)})

\* Where the piece that follows the sentence-final character at e begins.
PieceStartAfter(s, e) ==
  IF \A i \in (e + 1)..Len(s) : IsSpace(s[i]) THEN Len(s) + 1
  ELSE CHOOSE i \in (e + 1)..Len(s) :
         ~IsSpace(s[i]) /\ \A j \in (e + 1)..(i - 1) : IsSpace(s[j])

ReSplit(s) ==
  LET ends == SortedSeq({i \in 1..Len(s) : s[i] \in Terminal})
      from(k) == IF k = 1 THEN 1 ELSE PieceStartAfter(s, ends[k - 1])
  IN  [k \in 1..(Len(ends) + 1) |->
         IF k <= Len(ends) THEN SubSeq(s, from(k), ends[k])
         ELSE SubSeq(s, from(k), Len(s))]

----------------------------------------------------------------------------
(* Call and return *)

Return ==
  /\ IF stack = <<>>
       THEN pc' = "done" /\ stack' = stack
       ELSE pc' = Head(stack) /\ stack' = Tail(stack)
  /\ exc' = "none"

\* The except clause that encloses the call returning to label l, "" when the
\* call is made outside every try block of its caller.
Handler(l) ==
  IF l = "tw_chunks_ret" THEN "tw_except"   \* line 74 inside the try of 67-98
  ELSE ""

\* raise e: unwind to the innermost enclosing except clause; with none, the
\* exception leaves the outermost call.
RECURSIVE Unwind(_)
Unwind(st) ==
  IF st = <<>> THEN [pc |-> "raised", stack |-> <<>>]
  ELSE IF Handler(Head(st)) # "" THEN [pc |-> Handler(Head(st)), stack |-> Tail(st)]
  ELSE Unwind(Tail(st))

Raise(e) ==
  /\ pc' = Unwind(stack).pc
  /\ stack' = Unwind(stack).stack
  /\ exc' = e

----------------------------------------------------------------------------
(* _prepare_audio_chunks *)

Min(a, b) == IF a <= b THEN a ELSE b
Max(a, b) == IF a >= b THEN a ELSE b

\* A window twice as long.
ChunkEndDoubleStep(s, c, d) == Min(s + 2 * c, d)

\* Line 51: the end of the window that starts at s.
ChunkEnd(s, c, d) == Min(s + c, d)

\* Line 52: where the exported slice begins, the overlap reaching back.
ChunkFromSignSlip(s, o) == Max(0, s + o)

ChunkFrom(s, o) == Max(0, s - o)

\* Lines 39-48: the existence check, decoding, the loop's initial values.
PcEnter ==
  /\ pc = "pc_enter"
  /\ IF ~src_exists THEN Raise("FileNotFoundError")
     ELSE IF ~decodable THEN Raise("CouldntDecodeError")
     ELSE pc' = "pc_loop" /\ UNCHANGED <<stack, exc>>
  /\ start' = 0
  /\ idx' = 0
  /\ paths' = <<>>
  /\ UNCHANGED <<src_exists, decodable, duration, chunk_ms, overlap_ms, files,
                 OtherThanChunk>>
  /\ UNCHANGED runs

\* Lines 50-58: one iteration; mkstemp and export create the chunk's file.
PcLoop ==
  /\ pc = "pc_loop"
  /\ start < duration
  /\ LET end == ChunkEnd(start, chunk_ms, duration) IN
       /\ paths' = Append(paths, [id |-> idx,
                                  from |-> ChunkFrom(start, overlap_ms),
                                  to |-> end])
       /\ files' = files \cup {idx}
       /\ start' = end
  /\ idx' = idx + 1
  /\ UNCHANGED <<vCtl, src_exists, decodable, duration, chunk_ms, overlap_ms,
                 OtherThanChunk>>
  /\ UNCHANGED runs

\* Line 60.
PcReturn ==
  /\ pc = "pc_loop"
  /\ ~(start < duration)
  /\ Return
  /\ UNCHANGED <<vChunk, OtherThanChunk>>
  /\ UNCHANGED runs

InitChunk ==
  /\ pc = "pc_enter"
  /\ stack = <<>>
  /\ exc = "none"
  /\ src_exists \in BOOLEAN
  /\ decodable \in BOOLEAN
  /\ duration \in 0..MaxDuration
  /\ chunk_ms \in 1..MaxChunkMs
  /\ overlap_ms \in 0..MaxChunkMs
  /\ start = 0
  /\ idx = 0
  /\ paths = <<>>
  /\ files = {}
  /\ IdleSplit
  /\ IdleDecode
  /\ IdlePipeline
  /\ IdleRuns

NextChunk == PcEnter \/ PcLoop \/ PcReturn

SpecChunk == InitChunk /\ [][NextChunk]_vars

\* The function is sequential code: a step that can be taken is taken.
SpecChunkRuns == SpecChunk /\ WF_vars(NextChunk)

ChunkerReturned == pc = "done" /\ stack = <<>> /\ exc = "none"

\* C5: the chunks, in index order, cover [0, duration) without a gap: the
\* first begins at 0, each later one begins no later than its predecessor
\* ends, at most overlap_ms before that end and never before 0, and the last
\* ends at duration; every millisecond of the audio lies in some chunk.
C5_ChunkCoverage ==
  ChunkerReturned =>
    /\ \A t \in 0..(duration - 1) :
         \E i \in 1..Len(paths) : paths[i].from <= t /\ t < paths[i].to
    /\ duration > 0 => (paths[1].from = 0 /\ paths[Len(paths)].to = duration)
    /\ \A i \in 2..Len(paths) :
         /\ paths[i].from <= paths[i-1].to
         /\ paths[i].from >= paths[i-1].to - overlap_ms
         /\ paths[i].from >= 0
    /\ \A i \in 1..Len(paths) : paths[i].to <= duration

C5_Witness ==
  /\ ChunkerReturned
  /\ overlap_ms > 0
  /\ Len(paths) >= 3
  /\ paths[2].from < paths[1].to
  /\ paths[Len(paths)].to - paths[Len(paths)].from < chunk_ms

\* The least n with n * b >= a, for b > 0.
Ceiling(a, b) == (a + b - 1) \div b

\* C20: for every duration >= 0 and every chunk_ms > 0, whatever the
\* overlap, each iteration of the loop moves start strictly forward and
\* never beyond duration, the loop is left, and the function returns
\* exactly ceil(duration / chunk_ms) chunks (none for duration 0).
C20_TerminationAndCount ==
  /\ [][(paths' # paths) => (start < start' /\ start' <= duration)]_vars
  /\ (pc = "pc_loop") ~> ChunkerReturned
  /\ [](ChunkerReturned =>
          /\ Len(paths) = Ceiling(duration, chunk_ms)
          /\ duration = 0 => paths = <<>>)

\* Three chunks, the last shorter than chunk_ms, as 20 minutes cut by 8.
C20_Witness ==
  /\ ChunkerReturned
  /\ Len(paths) = 3
  /\ duration = 2 * chunk_ms + chunk_ms \div 2
  /\ chunk_ms \div 2 > 0
  /\ overlap_ms > 0

----------------------------------------------------------------------------
(* Python values as json.loads produces them: a tag t and a payload v.      *)
(* A dict is a function from its keys; the keys' order is not kept.        *)

JStr(s) == [t |-> "str", v |-> s]
JNum(n) == [t |-> "num", v |-> n]
JBool(b) == [t |-> "bool", v |-> b]
JList(q) == [t |-> "list", v |-> q]
JDict(f) == [t |-> "dict", v |-> f]

\* The dict of a set of <<key, value>> pairs.
MkDict(pairs) ==
  JDict([k \in {p[1] : p \in pairs} |-> (CHOOSE p \in pairs : p[1] = k)[2]])

HasKey(d, k) == k \in DOMAIN d.v

\* The order in which a dict's keys are printed by str().
KeyOrder == <<"concept", "question", "options", "answer", "explanation",
              "items", "A", "B", "C", "D", "E">>

Lower == <<"a", "b", "c", "d", "e", "f", "g", "h", "i", "j", "k", "l", "m",
           "n", "o", "p", "q", "r", "s", "t", "u", "v", "w", "x", "y", "z">>
Upper == <<"A", "B", "C", "D", "E", "F", "G", "H", "I", "J", "K", "L", "M",
           "N", "O", "P", "Q", "R", "S", "T", "U", "V", "W", "X", "Y", "Z">>

UpperChar(c) ==
  IF \E i \in 1..Len(Lower) : Lower[i] = c
    THEN Upper[CHOOSE i \in 1..Len(Lower) : Lower[i] = c]
    ELSE c

\* str.upper()
StrUpper(s) == [i \in 1..Len(s) |-> UpperChar(s[i])]

\* The characters of a TLA+ string constant used as a key.
KeyChars(k) ==
  CASE k = "concept" -> <<"c", "o", "n", "c", "e", "p", "t">>
    [] k = "question" -> <<"q", "u", "e", "s", "t", "i", "o", "n">>
    [] k = "options" -> <<"o", "p", "t", "i", "o", "n", "s">>
    [] k = "answer" -> <<"a", "n", "s", "w", "e", "r">>
    [] k = "explanation" ->
         <<"e", "x", "p", "l", "a", "n", "a", "t", "i", "o", "n">>
    [] k = "items" -> <<"i", "t", "e", "m", "s">>
    [] OTHER -> <<k>>

RECURSIVE JoinWith(_, _)
JoinWith(sep, parts) ==
  IF parts = <<>> THEN <<>>
  ELSE IF Len(parts) = 1 THEN parts[1]
  ELSE parts[1] \o sep \o JoinWith(sep, Tail(parts))

\* repr() and str() of a decoded value.
RECURSIVE PyRepr(_)
PyRepr(x) ==
  CASE x.t = "str" -> <<"'">> \o x.v \o <<"'">>
    [] x.t = "null" -> <<"N", "o", "n", "e">>
    [] x.t = "bool" -> IF x.v THEN <<"T", "r", "u", "e">>
                       ELSE <<"F", "a", "l", "s", "e">>
    [] x.t = "num" -> <<ToString(x.v)>>
    [] x.t = "list" ->
         <<"[">> \o JoinWith(<<",", " ">>,
                             [i \in 1..Len(x.v) |-> PyRepr(x.v[i])]) \o <<"]">>
    [] x.t = "dict" ->
         LET ks == SelectSeq(KeyOrder, LAMBDA k : k \in DOMAIN x.v)
         IN  <<"{">> \o JoinWith(<<",", " ">>,
                 [i \in 1..Len(ks) |->
                    <<"'">> \o KeyChars(ks[i]) \o <<"'", ":", " ">>
                      \o PyRepr(x.v[ks[i]])]) \o <<"}">>

PyStr(x) == IF x.t = "str" THEN x.v ELSE PyRepr(x)

\* What a call produced: a value, or the exception it raised.
Returned(v) == [exc |-> "none", val |-> v]
Raised(e) == [exc |-> e, val |-> JNull]

----------------------------------------------------------------------------
(* normalize_mcq_payload *)

OptionKeys == <<"A", "B", "C", "D">>
AnswerSet == {<<"A">>, <<"B">>, <<"C">>, <<"D">>}

\* Lines 187-212, one element: the cleaned record, or the reason it is
\* skipped (an exception caught at 211, or a continue).
NormalizeItemNoAnswerCheck(it) ==
  IF it.t # "dict" THEN Raised("TypeError")
  ELSE IF ~HasKey(it, "concept") \/ ~HasKey(it, "question")
          \/ ~HasKey(it, "options") \/ ~HasKey(it, "answer")
    THEN Raised("KeyError")
  ELSE
    LET options == it.v["options"] IN
    IF options.t # "dict" THEN Raised("continue")
    ELSE IF ~(\A i \in 1..4 : HasKey(options, OptionKeys[i]))
      THEN Raised("continue")
    ELSE Returned(JDict(
           [concept |-> JStr(Strip(PyStr(it.v["concept"]))),
            question |-> JStr(Strip(PyStr(it.v["question"]))),
            options |-> JDict([k \in {"A", "B", "C", "D"} |->
                                 JStr(PyStr(options.v[k]))]),
            answer |-> JStr(StrUpper(Strip(PyStr(it.v["answer"])))),
            explanation |-> JStr(Strip(
               IF HasKey(it, "explanation") THEN PyStr(it.v["explanation"])
               ELSE <<>>))]))

NormalizeItem(it) ==
  IF it.t # "dict" THEN Raised("TypeError")                 \* it["concept"]
  ELSE IF ~HasKey(it, "concept") \/ ~HasKey(it, "question")
          \/ ~HasKey(it, "options") \/ ~HasKey(it, "answer")
    THEN Raised("KeyError")                                 \* lines 188-191
  ELSE
    LET options == it.v["options"]
        answer == StrUpper(Strip(PyStr(it.v["answer"])))
    IN
    IF options.t # "dict" THEN Raised("continue")           \* line 193
    ELSE IF ~(\A i \in 1..4 : HasKey(options, OptionKeys[i]))
      THEN Raised("continue")                               \* line 195
    ELSE IF answer \notin AnswerSet THEN Raised("continue") \* line 197
    ELSE Returned(JDict(
           [concept |-> JStr(Strip(PyStr(it.v["concept"]))),
            question |-> JStr(Strip(PyStr(it.v["question"]))),
            options |-> JDict([k \in {"A", "B", "C", "D"} |->
                                 JStr(PyStr(options.v[k]))]),
            answer |-> JStr(answer),
            explanation |-> JStr(Strip(
               IF HasKey(it, "explanation") THEN PyStr(it.v["explanation"])
               ELSE <<>>))]))

\* Lines 185-213: the loop over the items.
RECURSIVE NormalizeLoop(_, _)
NormalizeLoop(items, cleaned) ==
  IF items = <<>> THEN cleaned
  ELSE LET r == NormalizeItem(Head(items))
       IN  NormalizeLoop(Tail(items),
                         IF r.exc = "none" THEN Append(cleaned, r.val)
                         ELSE cleaned)

\* Lines 177-213.
normalize_mcq_payload(d) ==
  IF d.t = "dict" /\ HasKey(d, "items") /\ d.v["items"].t = "list"
    THEN Returned(JList(NormalizeLoop(d.v["items"].v, <<>>)))
  ELSE IF d.t = "list"
    THEN Returned(JList(NormalizeLoop(d.v, <<>>)))
  ELSE Raised("ValueError")

\* ---- normalize_mcq_payload run alone

ABSENT == [t |-> "absent", v |-> 0]

\* An element with the given fields, ABSENT ones left out.
Item(c, q, o, a, e) ==
  MkDict({p \in {<<"concept", c>>, <<"question", q>>, <<"options", o>>,
                 <<"answer", a>>, <<"explanation", e>>} : p[2] # ABSENT})

FullOptions ==
  MkDict({<<"A", JStr(<<"w">>)>>, <<"B", JStr(<<"x">>)>>,
          <<"C", JStr(<<"y">>)>>, <<"D", JStr(<<"z">>)>>})
OptionsWithExtra ==
  MkDict({<<"A", JStr(<<"w">>)>>, <<"B", JNum(2)>>, <<"C", JStr(<<"y">>)>>,
          <<"D", JStr(<<"z">>)>>, <<"E", JStr(<<"v">>)>>})
OptionsEmptyA ==
  MkDict({<<"A", JStr(<<>>)>>, <<"B", JStr(<<"x">>)>>,
          <<"C", JStr(<<" ">>)>>, <<"D", JStr(<<"z">>)>>})
OptionsNoD ==
  MkDict({<<"A", JStr(<<"w">>)>>, <<"B", JStr(<<"x">>)>>,
          <<"C", JStr(<<"y">>)>>})

SampleConcept == JStr(<<" ", "k">>)
SampleQuestion == JStr(<<"q", " ">>)

\* Elements the loop keeps.
GoodItems ==
  {Item(SampleConcept, SampleQuestion, o, a, e) :
     o \in {FullOptions, OptionsWithExtra, OptionsEmptyA},
     a \in {JStr(<<"b">>), JStr(<<" ", "c", "\n">>), JStr(<<"D">>)},
     e \in {ABSENT, JStr(<<" ", "e">>)}}

\* Elements the loop drops, one defect each.
BadItems ==
  {Item(ABSENT, SampleQuestion, FullOptions, JStr(<<"A">>), ABSENT),
   Item(SampleConcept, ABSENT, FullOptions, JStr(<<"A">>), ABSENT),
   Item(SampleConcept, SampleQuestion, ABSENT, JStr(<<"A">>), ABSENT),
   Item(SampleConcept, SampleQuestion, JStr(<<"w">>), JStr(<<"A">>), ABSENT),
   Item(SampleConcept, SampleQuestion, JList(<<>>), JStr(<<"A">>), ABSENT),
   Item(SampleConcept, SampleQuestion, OptionsNoD, JStr(<<"A">>), ABSENT),
   Item(SampleConcept, SampleQuestion, FullOptions, ABSENT, ABSENT),
   Item(SampleConcept, SampleQuestion, FullOptions, JStr(<<"E">>), ABSENT),
   Item(SampleConcept, SampleQuestion, FullOptions, JStr(<<>>), ABSENT),
   Item(SampleConcept, SampleQuestion, FullOptions, JStr(<<"A", "B">>),
        ABSENT),
   Item(SampleConcept, SampleQuestion, FullOptions, JList(<<JStr(<<"A">>)>>),
        ABSENT),
   Item(SampleConcept, SampleQuestion, FullOptions, JNull, ABSENT),
   JStr(<<"q">>), JList(<<>>), JNull, JNum(1)}

ItemSamples == GoodItems \cup BadItems

\* The lists of at most max elements.
ItemLists(max) == UNION {[1..n -> ItemSamples] : n \in 0..max}

\* A bare array, an object with an items array, and the shapes refused.
NormPayloads(max) ==
  {JList(l) : l \in ItemLists(max)}
  \cup {MkDict({<<"items", JList(l)>>}) : l \in ItemLists(max)}
  \cup {MkDict({<<"items", JStr(<<"q">>)>>}), MkDict({<<"items", JNull>>}),
        MkDict({}), MkDict({<<"concept", SampleConcept>>}),
        JStr(<<"q">>), JNum(1), JNull, JBool(TRUE)}

\* A call of the function under study: the outcome out leaves in ret, or
\* the exception propagates.
Finish(out) ==
  IF out.exc = "none"
    THEN ret' = out.val /\ Return
    ELSE ret' = ret /\ Raise(out.exc)

NormCall ==
  /\ pc = "norm_enter"
  /\ Finish(normalize_mcq_payload(data))
  /\ UNCHANGED <<data, raw, OtherThanDecode>>
  /\ UNCHANGED runs

InitNorm ==
  /\ pc = "norm_enter"
  /\ stack = <<>>
  /\ exc = "none"
  /\ data \in NormPayloads(MaxItems)
  /\ raw = <<>>
  /\ ret = JNull
  /\ IdleSplit
  /\ IdleChunk
  /\ IdlePipeline
  /\ IdleRuns

NextNorm == NormCall

SpecNorm == InitNorm /\ [][NextNorm]_vars

\* The items of an accepted payload.
PayloadItems(d) == IF d.t = "list" THEN d.v ELSE d.v["items"].v

AcceptedShape(d) ==
  \/ d.t = "list"
  \/ d.t = "dict" /\ HasKey(d, "items") /\ d.v["items"].t = "list"

HasRequiredFields(it) ==
  /\ it.t = "dict"
  /\ {"concept", "question", "options", "answer"} \subseteq DOMAIN it.v
  /\ it.v["options"].t = "dict"
  /\ {"A", "B", "C", "D"} \subseteq DOMAIN it.v["options"].v

\* An answer that is A/B/C/D but for its case.
AnswerIsLetter(it) ==
  it.v["answer"].t = "str" /\ StrUpper(it.v["answer"].v) \in AnswerSet

\* An answer that is A/B/C/D but for its case and surrounding white space.
AnswerIsPaddedLetter(it) ==
  it.v["answer"].t = "str" /\ StrUpper(Strip(it.v["answer"].v)) \in AnswerSet

\* The record kept for element it.
KeptAs(rec, it) ==
  /\ rec.t = "dict"
  /\ DOMAIN rec.v = {"concept", "question", "options", "answer", "explanation"}
  /\ rec.v["concept"].v = Strip(PyStr(it.v["concept"]))
  /\ rec.v["question"].v = Strip(PyStr(it.v["question"]))
  /\ rec.v["answer"].v \in AnswerSet
  /\ rec.v["answer"].v = StrUpper(Strip(PyStr(it.v["answer"])))
  /\ DOMAIN rec.v["options"].v = {"A", "B", "C", "D"}
  /\ \A k \in {"A", "B", "C", "D"} :
       rec.v["options"].v[k].v = PyStr(it.v["options"].v[k])
  /\ rec.v["explanation"].v =
       (IF HasKey(it, "explanation") THEN Strip(PyStr(it.v["explanation"]))
        ELSE <<>>)

\* ret is the order-preserving subsequence of the elements that satisfy Keep.
IsFilteredBy(Keep(_)) ==
  LET kept == SelectSeq(PayloadItems(data), Keep) IN
  /\ ret.t = "list"
  /\ Len(ret.v) = Len(kept)
  /\ \A i \in 1..Len(kept) : KeptAs(ret.v[i], kept[i])

NormReturned == pc = "done" /\ exc = "none"

\* C8 as stated: the result is the subsequence of the elements with the
\* required fields and an answer that is A/B/C/D case-insensitively.
C8_AsStated ==
  (NormReturned /\ AcceptedShape(data)) =>
    IsFilteredBy(LAMBDA it : HasRequiredFields(it) /\ AnswerIsLetter(it))

\* C8 amended: the answer is compared after trimming surrounding white
\* space as well; a payload of an accepted shape never raises.
C8_NormalizationFilter ==
  /\ (pc \in {"done", "raised"} /\ AcceptedShape(data)) => pc = "done"
  /\ (NormReturned /\ AcceptedShape(data)) =>
       IsFilteredBy(LAMBDA it : HasRequiredFields(it)
                                  /\ AnswerIsPaddedLetter(it))

C8_Witness ==
  /\ NormReturned
  /\ data.t = "dict"
  /\ Len(PayloadItems(data)) = 2
  /\ Len(ret.v) = 1
  /\ \E i \in 1..2 :
       /\ HasRequiredFields(PayloadItems(data)[i])
       /\ PayloadItems(data)[i].v["answer"].v = <<" ", "c", "\n">>
       /\ ~HasKey(PayloadItems(data)[i], "explanation")
  /\ ret.v[1].v["answer"].v = <<"C">>
  /\ ret.v[1].v["explanation"].v = <<>>

----------------------------------------------------------------------------
(* safe_json_parse.  A raw response is a sequence of lexical pieces:       *)
(*   "[" "]" "{" "}" ","   the JSON punctuation                            *)
(*   "I"    a complete item object {"concept": ..., "answer": "b"}          *)
(*   "J"    the same object written with curly quotes                      *)
(*   "M"    an item object whose option A is "" and option C is " "        *)
(*   "Q"    an item object whose question text quotes a term in curly      *)
(*          quotes; "X" the same text with those quotes straightened,      *)
(*          which is no JSON any more                                      *)
(*   "C"    an item object whose question text holds a comma followed by   *)
(*          a closing brace; "c" the same object without that comma        *)
(*   "T"    a true/false item {"concept", "question", "answer": "True",     *)
(*          "explanation"}                                                 *)
(*   "1"    a number                                                       *)
(*   "K"    the member key "items":                                       *)
(*   "p"    prose                                                          *)
(*   "F"    the opening fence ```json      "E"   a bare fence ```           *)
(* White space between pieces is not written: json.loads and both patterns *)
(* skip it.                                                                *)

RawAlphabet == {"[", "]", "{", "}", ",", "I", "J", "M", "K", "p", "F", "E"}

\* The pieces that are one JSON object, and what json.loads makes of each.
ObjectPieces == {"I", "M", "T", "Q", "C", "c"}

ItemValue(c) ==
  CASE c = "I" -> Item(JStr(<<"k">>), JStr(<<"q">>), FullOptions,
                       JStr(<<"b">>), JStr(<<"e">>))
    [] c = "M" -> Item(JStr(<<"k">>), JStr(<<"q">>), OptionsEmptyA,
                       JStr(<<"D">>), ABSENT)
    [] c = "T" -> Item(JStr(<<"k">>), JStr(<<"q">>), ABSENT,
                       JStr(<<"T", "r", "u", "e">>), JStr(<<"e">>))
    [] c = "Q" -> Item(JStr(<<"k">>), JStr(<<"<", "t", ">">>), FullOptions,
                       JStr(<<"b">>), JStr(<<"e">>))
    [] c = "C" -> Item(JStr(<<"k">>), JStr(<<"q", ",", "}">>), FullOptions,
                       JStr(<<"b">>), JStr(<<"e">>))
    [] c = "c" -> Item(JStr(<<"k">>), JStr(<<"q", "}">>), FullOptions,
                       JStr(<<"b">>), JStr(<<"e">>))

\* json.loads, by recursive descent: [ok, val, pos] with pos the index after
\* the value read.
NoParse == [ok |-> FALSE, val |-> JNull, pos |-> 0]

RECURSIVE ParseValue(_, _)
RECURSIVE ParseElements(_, _, _)
RECURSIVE ParseMembers(_, _, _)

ParseValue(ts, i) ==
  IF i > Len(ts) THEN NoParse
  ELSE IF ts[i] \in ObjectPieces
    THEN [ok |-> TRUE, val |-> ItemValue(ts[i]), pos |-> i + 1]
  ELSE IF ts[i] = "1" THEN [ok |-> TRUE, val |-> JNum(1), pos |-> i + 1]
  ELSE IF ts[i] = "[" THEN
    IF i + 1 <= Len(ts) /\ ts[i + 1] = "]"
      THEN [ok |-> TRUE, val |-> JList(<<>>), pos |-> i + 2]
      ELSE ParseElements(ts, i + 1, <<>>)
  ELSE IF ts[i] = "{" THEN
    IF i + 1 <= Len(ts) /\ ts[i + 1] = "}"
      THEN [ok |-> TRUE, val |-> MkDict({}), pos |-> i + 2]
      ELSE ParseMembers(ts, i + 1, MkDict({}))
  ELSE NoParse

\* The elements of an array from position i on, acc those read so far.
ParseElements(ts, i, acc) ==
  LET e == ParseValue(ts, i) IN
  IF ~e.ok \/ e.pos > Len(ts) THEN NoParse
  ELSE IF ts[e.pos] = "]"
    THEN [ok |-> TRUE, val |-> JList(Append(acc, e.val)), pos |-> e.pos + 1]
  ELSE IF ts[e.pos] = ","
    THEN ParseElements(ts, e.pos + 1, Append(acc, e.val))
  ELSE NoParse

\* The members of an object from position i on; a repeated key keeps its
\* last value.
ParseMembers(ts, i, acc) ==
  IF i > Len(ts) \/ ts[i] # "K" THEN NoParse
  ELSE
    LET e == ParseValue(ts, i + 1)
        d == MkDict({<<"items", e.val>>})
    IN
    IF ~e.ok \/ e.pos > Len(ts) THEN NoParse
    ELSE IF ts[e.pos] = "}" THEN [ok |-> TRUE, val |-> d, pos |-> e.pos + 1]
    ELSE IF ts[e.pos] = "," THEN ParseMembers(ts, e.pos + 1, d)
    ELSE NoParse

json_loads(ts) ==
  LET r == ParseValue(ts, 1) IN
  IF r.ok /\ r.pos = Len(ts) + 1 THEN Returned(r.val)
  ELSE Raised("JSONDecodeError")

\* The exceptions an `except Exception` clause catches.
CaughtByExceptException(e) ==
  e \in {"ValueError", "JSONDecodeError", "KeyError", "TypeError",
         "AttributeError", "APIError", "FileNotFoundError",
         "CouldntDecodeError", "DoesNotExist", "DatabaseError"}

\* Lines 218 and 229: normalize_mcq_payload(json.loads(x)).
DecodeAndNormalize(ts) ==
  LET j == json_loads(ts) IN
  IF j.exc # "none" THEN j ELSE normalize_mcq_payload(j.val)

\* Line 221: the content of the first ```json fence, up to the next fence.
OpensBrace(c) == c \in {"{", "J", "X"} \cup ObjectPieces
ClosesBrace(c) == c \in {"}", "J", "X"} \cup ObjectPieces

Indices(ts, P(_)) == {i \in 1..Len(ts) : P(ts[i])}


NoMatch == [found |-> FALSE, group |-> <<>>]
Match(g) == [found |-> TRUE, group |-> g]

FenceSearch(ts) ==
  LET opens == {f \in Indices(ts, LAMBDA c : c = "F") :
                  \E c \in (f + 1)..Len(ts) : ts[c] \in {"E", "F"}}
  IN
  IF opens = {} THEN NoMatch
  ELSE LET f == SetMin(opens)
           c == SetMin({c \in (f + 1)..Len(ts) : ts[c] \in {"E", "F"}})
       IN  Match(SubSeq(ts, f + 1, c - 1))

\* Line 223: at the leftmost position where either alternative matches, the
\* object alternative first, each greedy to the last closing character.
BraceEnd(ts, i) ==
  LET from == IF ts[i] = "{" THEN i + 1 ELSE i
      ends == {q \in from..Len(ts) : ClosesBrace(ts[q])}
  IN  IF OpensBrace(ts[i]) /\ ends # {} THEN SetMax(ends) ELSE 0

BracketEnd(ts, i) ==
  LET ends == {q \in (i + 1)..Len(ts) : ts[q] = "]"}
  IN  IF ts[i] = "[" /\ ends # {} THEN SetMax(ends) ELSE 0

EmbeddedSearch(ts) ==
  LET starts == {i \in 1..Len(ts) : BraceEnd(ts, i) > 0 \/ BracketEnd(ts, i) > 0}
  IN
  IF starts = {} THEN NoMatch
  ELSE LET i == SetMin(starts)
       IN  IF BraceEnd(ts, i) > 0 THEN Match(SubSeq(ts, i, BraceEnd(ts, i)))
           ELSE Match(SubSeq(ts, i, BracketEnd(ts, i)))

\* Line 226: curly quotes to straight ones, those inside a string too.
StraightenQuotes(ts) ==
  [i \in 1..Len(ts) |-> CASE ts[i] = "J" -> "I"
                          [] ts[i] = "Q" -> "X"
                          [] OTHER -> ts[i]]

\* Line 227: a comma directly before a closing bracket or brace is removed,
\* inside a string too.
RECURSIVE DropTrailingCommas(_)
DropTrailingCommas(ts) ==
  IF ts = <<>> THEN <<>>
  ELSE IF Head(ts) = "," /\ Len(ts) >= 2 /\ ts[2] \in {"]", "}"}
    THEN DropTrailingCommas(Tail(ts))
  ELSE IF Head(ts) = "C" THEN <<"c">> \o DropTrailingCommas(Tail(ts))
    ELSE <<Head(ts)>> \o DropTrailingCommas(Tail(ts))

Repair(ts) == DropTrailingCommas(StraightenQuotes(ts))

\* Line 233.
FinalFailureReturnsEmpty == Returned(JList(<<>>))

FinalFailure == Raised("ValueError")

\* Lines 216-233.
safe_json_parse(ts) ==
  LET first == DecodeAndNormalize(ts)
      fence == FenceSearch(ts)
      m == IF fence.found THEN fence ELSE EmbeddedSearch(ts)
      second == DecodeAndNormalize(Repair(m.group))
  IN
  IF first.exc = "none" THEN first
  ELSE IF ~CaughtByExceptException(first.exc) THEN first
  ELSE IF m.found /\ second.exc = "none" THEN second
  ELSE IF m.found /\ ~CaughtByExceptException(second.exc) THEN second
  ELSE FinalFailure

\* ---- safe_json_parse run alone

ParseCall ==
  /\ pc = "parse_enter"
  /\ Finish(safe_json_parse(raw))
  /\ UNCHANGED <<data, raw, OtherThanDecode>>
  /\ UNCHANGED runs

InitParse ==
  /\ pc = "parse_enter"
  /\ stack = <<>>
  /\ exc = "none"
  /\ data = JNull
  /\ raw \in StringsUpTo(RawAlphabet, MaxRaw)
  /\ ret = JNull
  /\ IdleSplit
  /\ IdleChunk
  /\ IdlePipeline
  /\ IdleRuns

NextParse == ParseCall

SpecParse == InitParse /\ [][NextParse]_vars

\* The contiguous parts of a response.
Parts(ts) == {SubSeq(ts, i, j) : i \in 1..(Len(ts) + 1), j \in 0..Len(ts)}

\* A part that parses, as it stands or repaired, to an array or an object.
IsPayload(ts) ==
  \/ json_loads(ts).exc = "none"
  \/ json_loads(Repair(ts)).exc = "none"

NoParseablePayload(ts) == \A q \in Parts(ts) : ~IsPayload(q)

ParseCalled == pc \in {"done", "raised"}

\* C10: a response with no parseable payload makes safe_json_parse raise
\* ValueError; the call never raises anything else, and what it returns is a
\* list.
C10_DecodeFailure ==
  ParseCalled =>
    /\ NoParseablePayload(raw) => (pc = "raised" /\ exc = "ValueError")
    /\ pc = "raised" => exc = "ValueError"
    /\ pc = "done" => ret.t = "list"

C10_Witness ==
  /\ pc = "raised"
  /\ exc = "ValueError"
  /\ NoParseablePayload(raw)
  /\ FenceSearch(raw).found
  /\ \E i \in 1..Len(raw) : raw[i] = "["

\* ---- safe_json_parse on commentary around a fenced block

MaxFenced == 2

\* The elements of the fenced data; in the text of "Q" the characters < and >
\* stand for the curly quotes.
FencedElements == {"I", "J", "M", "Q", "C"}

RECURSIVE CommaSeparated(_)
CommaSeparated(es) ==
  IF Len(es) <= 1 THEN es
  ELSE <<Head(es), ",">> \o CommaSeparated(Tail(es))

\* An array of at most max elements, a trailing comma after the last one or
\* not, bare or as the items of an object.
FencedArrays(max) ==
  {<<"[">> \o CommaSeparated(es) \o tc \o <<"]">> :
     es \in UNION {[1..n -> FencedElements] : n \in 1..max},
     tc \in {<<>>, <<",">>}}
  \cup {<<"[", "]">>}

FencedContents(max) ==
  FencedArrays(max)
  \cup {<<"{", "K">> \o a \o tc \o <<"}">> :
          a \in FencedArrays(max), tc \in {<<>>, <<",">>}}

\* The same data written cleanly: straight quotes around keys and strings,
\* no comma before a closing bracket or brace; the strings are untouched.
RECURSIVE CleanEquivalent(_)
CleanEquivalent(ts) ==
  IF ts = <<>> THEN <<>>
  ELSE IF Head(ts) = "," /\ Len(ts) >= 2 /\ ts[2] \in {"]", "}"}
    THEN CleanEquivalent(Tail(ts))
  ELSE IF Head(ts) = "J" THEN <<"I">> \o CleanEquivalent(Tail(ts))
    ELSE <<Head(ts)>> \o CleanEquivalent(Tail(ts))

\* raw is the response, data what json.loads makes of the clean equivalent
\* of its fenced block.
InitRepair ==
  /\ pc = "parse_enter"
  /\ stack = <<>>
  /\ exc = "none"
  /\ \E content \in FencedContents(MaxFenced), after \in {<<>>, <<"p">>} :
       /\ raw = <<"p", "F">> \o content \o <<"E">> \o after
       /\ data = json_loads(CleanEquivalent(content)).val
  /\ ret = JNull
  /\ IdleSplit
  /\ IdleChunk
  /\ IdlePipeline
  /\ IdleRuns

NextRepair == ParseCall

SpecRepair == InitRepair /\ [][NextRepair]_vars

\* C11 (as stated): commentary around a fenced block of data that is valid
\* but for trailing commas and curly quotes decodes, and to the result the
\* clean equivalent of the data gives.
C11_AsStated ==
  ParseCalled =>
    /\ pc = "done"
    /\ Returned(ret) = normalize_mcq_payload(data)

----------------------------------------------------------------------------
(* dynamic_split *)

\* One iteration of the packing loop, lines 111-118: st is the pair of the
\* accumulator and the emitted segments.
SplitStepNeverFlush(st, para, lo, hi) ==
  [temp |-> st.temp \o para, chunks |-> st.chunks]

SplitStepAlwaysFlush(st, para, lo, hi) ==
  IF Len(st.temp) + Len(para) <= hi
    THEN [temp |-> st.temp \o para, chunks |-> st.chunks]
    ELSE [temp |-> para, chunks |-> Append(st.chunks, Strip(st.temp))]

\* The flush that forgets to emit the accumulator.
SplitStepDropsSegment(st, para, lo, hi) ==
  IF Len(st.temp) + Len(para) <= hi
    THEN [temp |-> st.temp \o para, chunks |-> st.chunks]
    ELSE IF Len(st.temp) >= lo
      THEN [temp |-> para, chunks |-> st.chunks]
      ELSE [temp |-> st.temp \o para, chunks |-> st.chunks]

SplitStep(st, para, lo, hi) ==
  IF Len(st.temp) + Len(para) <= hi
    THEN [temp |-> st.temp \o para, chunks |-> st.chunks]
    ELSE IF Len(st.temp) >= lo
      THEN [temp |-> para, chunks |-> Append(st.chunks, Strip(st.temp))]
      ELSE [temp |-> st.temp \o para, chunks |-> st.chunks]

\* Lines 105-109: strip, the short-text return, the split.
DsEnter ==
  /\ pc = "ds_enter"
  /\ LET t == Strip(text) IN
       /\ text' = t
       /\ IF Len(t) <= max_length
            THEN /\ chunks' = <<t>>
                 /\ paragraphs' = <<>>
                 /\ Return
            ELSE /\ chunks' = <<>>
                 /\ paragraphs' = ReSplit(t)
                 /\ pc' = "ds_loop"
                 /\ UNCHANGED <<stack, exc>>
  /\ temp' = <<>>
  /\ para_i' = 1
  /\ UNCHANGED <<min_length, max_length, OtherThanSplit>>
  /\ UNCHANGED runs

\* Lines 110-118: one paragraph of the for loop.
DsLoop ==
  /\ pc = "ds_loop"
  /\ para_i <= Len(paragraphs)
  /\ LET st == SplitStep([temp |-> temp, chunks |-> chunks],
                         paragraphs[para_i], min_length, max_length)
     IN  temp' = st.temp /\ chunks' = st.chunks
  /\ para_i' = para_i + 1
  /\ UNCHANGED <<vCtl, text, min_length, max_length, paragraphs,
                 OtherThanSplit>>
  /\ UNCHANGED runs

\* The flush after the loop, lines 119-121.
FinalFlush(t, cs) == IF t # <<>> THEN Append(cs, Strip(t)) ELSE cs

DsFlush ==
  /\ pc = "ds_loop"
  /\ para_i > Len(paragraphs)
  /\ chunks' = FinalFlush(temp, chunks)
  /\ Return
  /\ UNCHANGED <<text, min_length, max_length, paragraphs, para_i, temp,
                 OtherThanSplit>>
  /\ UNCHANGED runs

\* dynamic_split as a function of its arguments (what a caller gets back).
RECURSIVE SplitFold(_, _, _, _, _)
SplitFold(st, ps, i, lo, hi) ==
  IF i > Len(ps) THEN FinalFlush(st.temp, st.chunks)
  ELSE SplitFold(SplitStep(st, ps[i], lo, hi), ps, i + 1, lo, hi)

dynamic_split(s, lo, hi) ==
  LET t == Strip(s) IN
  IF Len(t) <= hi THEN <<t>>
  ELSE SplitFold([temp |-> <<>>, chunks |-> <<>>], ReSplit(t), 1, lo, hi)

SplitAlphabet == {"a", ".", " "}

InitSplit ==
  /\ pc = "ds_enter"
  /\ stack = <<>>
  /\ exc = "none"
  /\ IdleChunk
  /\ IdleDecode
  /\ IdlePipeline
  /\ text \in StringsUpTo(SplitAlphabet, MaxTextLen)
  /\ min_length \in 0..MaxSplitBound
  /\ max_length \in 0..MaxSplitBound
  /\ paragraphs = <<>>
  /\ para_i = 1
  /\ temp = <<>>
  /\ chunks = <<>>
  /\ IdleRuns

NextSplit == DsEnter \/ DsLoop \/ DsFlush

SpecSplit == InitSplit /\ [][NextSplit]_vars

----------------------------------------------------------------------------
(* Segmenter claims *)

SplitDone == pc = "done" /\ stack = <<>>

\* The sentences of a segment: its non-empty pieces.
Sentences(seg) == SelectSeq(ReSplit(seg), LAMBDA p : p # <<>>)

LastSentenceLen(seg) ==
  LET ss == Sentences(seg) IN IF ss = <<>> THEN 0 ELSE Len(ss[Len(ss)])

\* C6 as stated: every segment is within max_length or is one sentence
\* (read here for ordinary bounds, 0 < min_length <= max_length, where it
\* already fails).
C6_AsStated ==
  (SplitDone /\ 0 < min_length /\ min_length <= max_length) =>
    \A i \in 1..Len(chunks) :
      Len(chunks[i]) <= max_length \/ Len(Sentences(chunks[i])) = 1

\* C6 amended: a segment longer than max_length is one sentence, or several
\* sentences of which all but the last are together shorter than min_length
\* (the overshoot taken rather than emitting an undersized segment).
C6_LengthBound ==
  SplitDone =>
    \A i \in 1..Len(chunks) :
      \/ Len(chunks[i]) <= max_length
      \/ Len(Sentences(chunks[i])) = 1
      \/ Len(chunks[i]) - LastSentenceLen(chunks[i]) < min_length

C6_Witness ==
  /\ SplitDone
  /\ min_length <= max_length
  /\ \E i \in 1..Len(chunks) :
       /\ Len(chunks[i]) > max_length
       /\ Len(Sentences(chunks[i])) >= 2

\* C7: no segment but the last is shorter than min_length; the loop emits a
\* segment only from an accumulator of at least min_length; the final
\* non-empty accumulator is always emitted.
C7_MinimumSize ==
  /\ [](SplitDone =>
          \A i \in 1..(Len(chunks) - 1) : Len(chunks[i]) >= min_length)
  /\ [][(pc = "ds_loop" /\ para_i <= Len(paragraphs)
           /\ Len(chunks') > Len(chunks)) => Len(temp) >= min_length]_vars
  /\ [][(pc = "ds_loop" /\ para_i > Len(paragraphs) /\ temp # <<>>)
           => (chunks' = Append(chunks, Strip(temp)) /\ pc' = "done")]_vars

C7_Witness ==
  /\ SplitDone
  /\ Len(chunks) >= 3
  /\ Len(chunks[Len(chunks)]) < min_length
  /\ \E i \in 1..Len(chunks) : Len(chunks[i]) > max_length

RECURSIVE Concatenation(_)
Concatenation(cs) ==
  IF cs = <<>> THEN <<>> ELSE Head(cs) \o Concatenation(Tail(cs))

\* The white space between sentences: the run of blanks and newlines that
\* directly follows a sentence-final character.
BetweenSentences(s, i) ==
  /\ IsSpace(s[i])
  /\ \E j \in 1..(i - 1) :
       s[j] \in Terminal /\ \A k \in (j + 1)..i : IsSpace(s[k])

WithoutInterSentenceSpace(s) ==
  LET kept == SortedSeq({i \in 1..Len(s) : ~BetweenSentences(s, i)})
  IN  [k \in 1..Len(kept) |-> s[kept[k]]]

\* C17: the segments, concatenated in order, are the stripped text without
\* the white space between its sentences, so that no sentence is lost,
\* repeated or moved; a text no longer than max_length comes back as the one
\* segment that is the stripped text.
C17_ContentPreserved ==
  SplitDone =>
    IF Len(Strip(text)) <= max_length
      THEN chunks = <<Strip(text)>>
      ELSE Concatenation(chunks) = WithoutInterSentenceSpace(Strip(text))

\* Two segments or more, none empty: the blank between two sentences is
\* dropped, the blank inside a sentence is kept.
C17_Witness ==
  /\ SplitDone
  /\ 0 < min_length /\ min_length <= max_length
  /\ Len(chunks) >= 2
  /\ \A i \in 1..Len(chunks) : chunks[i] # <<>>
  /\ Len(Concatenation(chunks)) < Len(text)
  /\ \E i \in 2..(Len(text) - 1) :
       text[i] = " " /\ ~BetweenSentences(text, i)

----------------------------------------------------------------------------
(* The services and the record store, as the pipeline sees them *)

DefaultChunkMs == 480000
DefaultOverlapMs == 2000
DefaultMinLength == 300
DefaultMaxLength == 1000
LongSentenceLen == 600

\* Lines 21-26.
create_openai_client(key_set) ==
  IF ~key_set THEN Raised("ValueError") ELSE Returned(JNull)

\* A sentence long enough that two of them exceed DefaultMaxLength.
LongSentence == [i \in 1..LongSentenceLen |-> IF i = LongSentenceLen THEN "." ELSE "a"]

\* What a transcription request may do: fail, or answer with a text.
TranscriptionResponses ==
  {Raised("APIError"), Returned(<<>>), Returned(<<" ", "a", ".", "\n">>),
   Returned(LongSentence)}

\* What a summarisation request may do.
SummaryResponses == {Raised("APIError"), Returned(<<" ", "s", " ">>)}

\* The responses to a multiple-choice request: a failure, or a raw text
\* (an absent content reads as the empty text, lines 252 and 270).
McqRawSamples ==
  {<<>>, <<"p">>, <<"[", "]">>, <<"[", "I", "]">>,
   <<"[", "I", ",", "{", "}", ",", "I", "]">>,
   <<"p", "F", "[", "J", ",", "]", "E">>, <<"[", "M", "]">>}

McqResponses == {Raised("APIError")} \cup {Returned(r) : r \in McqRawSamples}

\* The responses to a true/false request (an absent content makes
\* json.loads raise TypeError inside the try of 295-305).
TfRawSamples ==
  {<<"p">>, <<"[", "]">>, <<"[", "T", ",", "1", "]">>, <<"T">>, <<"1">>,
   <<"[", "I", "]">>}

TfResponses ==
  {Raised("APIError"), Raised("TypeError")}
  \cup {Returned(r) : r \in TfRawSamples}

\* A guard that lets every value through.
TruthyAlways(x) == TRUE

\* The truth value Python gives a decoded value.
Truthy(x) ==
  CASE x.t = "null" -> FALSE
    [] x.t = "bool" -> x.v
    [] x.t = "num" -> x.v # 0
    [] x.t = "str" -> x.v # <<>>
    [] x.t = "list" -> x.v # <<>>
    [] x.t = "dict" -> DOMAIN x.v # {}

\* for item in x: the items, or TypeError for a value that is not iterable.
Iterate(x) ==
  CASE x.t = "list" -> Returned(x.v)
    [] x.t = "dict" ->
         LET ks == SelectSeq(KeyOrder, LAMBDA k : k \in DOMAIN x.v)
         IN  Returned([i \in 1..Len(ks) |-> JStr(KeyChars(ks[i]))])
    [] x.t = "str" -> Returned([i \in 1..Len(x.v) |-> JStr(<<x.v[i]>>)])
    [] OTHER -> Raised("TypeError")

\* item.get(k, '') on a dict.
GetOr(d, k, default) == IF HasKey(d, k) THEN d.v[k] ELSE default

EmptyStr == JStr(<<>>)

\* Question.concept is not passed to create(): the field keeps its default.
DefaultConcept == JStr(<<"u", "n", "c", "l", "a", "s", "s", "i", "f", "i", "e", "d">>)

\* Lines 316-336: the record create() is called with, or the exception the
\* construction of its arguments raises.
QuestionRecord(item, qtype, lec) ==
  IF item.t # "dict" THEN Raised("AttributeError")          \* item.get
  ELSE IF qtype = "mcq" THEN
    LET o == GetOr(item, "options", MkDict({}))
        options == IF Truthy(o) THEN o ELSE MkDict({})      \* ... or {}
        opt(k) == JStr(Strip(PyStr(GetOr(options, k, EmptyStr))))
    IN
    IF options.t # "dict" THEN Raised("AttributeError")     \* options.get
    ELSE Returned(
      [lecture |-> lec,
       question_text |-> JStr(Strip(PyStr(GetOr(item, "question", EmptyStr)))),
       option_a |-> opt("A"), option_b |-> opt("B"),
       option_c |-> opt("C"), option_d |-> opt("D"),
       correct_answer |-> JStr(Strip(PyStr(GetOr(item, "answer", EmptyStr)))),
       explanation |-> JStr(Strip(PyStr(GetOr(item, "explanation", EmptyStr)))),
       concept |-> DefaultConcept,
       question_type |-> "mcq"])
  ELSE Returned(
      [lecture |-> lec,
       question_text |-> JStr(Strip(PyStr(GetOr(item, "question", EmptyStr)))),
       option_a |-> JNull, option_b |-> JNull,
       option_c |-> JNull, option_d |-> JNull,
       correct_answer |-> JStr(Strip(PyStr(GetOr(item, "answer", EmptyStr)))),
       explanation |-> JStr(Strip(PyStr(GetOr(item, "explanation", EmptyStr)))),
       concept |-> DefaultConcept,
       question_type |-> "tf"])

\* Line 146 and line 171: the placeholder of a failed segment, the sentinel
\* of a failed combination.
Placeholder(chunk_index) == <<"#", ToString(chunk_index + 1), " ", "f", "a", "i", "l", "e", "d">>
FailureSentinel == <<"c", "o", "m", "b", "i", "n", "e", " ", "f", "a", "i", "l", "e", "d">>

\* The placeholder numbered from 0.
SummaryPlaceholderZeroBased(resp, chunk_index) ==
  IF resp.exc = "none" THEN Strip(resp.val) ELSE Placeholder(chunk_index - 1)

\* Lines 136-146 and 161-171, given what the request did.
generate_summary_for_chunk(resp, chunk_index) ==
  IF resp.exc = "none" THEN Strip(resp.val) ELSE Placeholder(chunk_index)

combine_summaries(resp) ==
  IF resp.exc = "none" THEN Strip(resp.val) ELSE FailureSentinel

\* Lines 246-253 and 264-271: the request and the decode of its response.
Attempt(resp) == IF resp.exc # "none" THEN resp ELSE safe_json_parse(resp.val)

\* The first attempt returns (line 253) unless something was raised.
AttemptSucceededNonEmpty(r) == r.exc = "none" /\ r.val.v # <<>>

AttemptSucceeded(r) == r.exc = "none"

\* Lines 295-305.
generate_tf_questions(resp) ==
  IF resp.exc # "none" THEN JList(<<>>)
  ELSE LET j == json_loads(resp.val)
       IN  IF j.exc = "none" THEN j.val ELSE JList(<<>>)

Call(target, return_to) ==
  /\ pc' = target
  /\ stack' = <<return_to>> \o stack
  /\ exc' = exc

Goto(target) == pc' = target /\ UNCHANGED <<stack, exc>>

----------------------------------------------------------------------------
(* transcribe_with_whisper *)

\* Lines 67-74.
TwEnter ==
  /\ pc = "tw_enter"
  /\ IF ~src_exists
       THEN transcript' = JNull /\ Return /\ UNCHANGED <<chunk_ms, overlap_ms>>
     ELSE IF create_openai_client(api_key_set).exc # "none"
       THEN /\ pc' = "tw_except"
            /\ exc' = create_openai_client(api_key_set).exc
            /\ UNCHANGED <<stack, transcript, chunk_ms, overlap_ms>>
     ELSE /\ Call("pc_enter", "tw_chunks_ret")
          /\ chunk_ms' = DefaultChunkMs
          /\ overlap_ms' = DefaultOverlapMs
          /\ transcript' = transcript
  /\ UNCHANGED <<src_exists, decodable, duration, start, idx, paths, files,
                 api_key_set, tw_i, pieces, requests, OtherThanTrans>>
  /\ UNCHANGED runs

\* Line 76.
TwChunksRet ==
  /\ pc = "tw_chunks_ret"
  /\ pieces' = <<>>
  /\ tw_i' = 1
  /\ Goto("tw_loop")
  /\ UNCHANGED <<vChunk, api_key_set, requests, transcript, OtherThanTrans>>
  /\ UNCHANGED runs

\* Lines 77-91: one chunk. The finally clause removes the chunk's file
\* whatever the request did; a request that raises leaves the loop.
TwRequest ==
  /\ pc = "tw_loop"
  /\ tw_i <= Len(paths)
  /\ \E resp \in TranscriptionResponses :
       /\ requests' = Append(requests, [id |-> paths[tw_i].id, resp |-> resp])
       /\ IF resp.exc = "none"
            THEN /\ pieces' = Append(pieces, Strip(resp.val))
                 /\ tw_i' = tw_i + 1
                 /\ Goto("tw_loop")
            ELSE /\ pc' = "tw_except"
                 /\ exc' = resp.exc
                 /\ UNCHANGED <<stack, pieces, tw_i>>
  /\ files' = files \ {paths[tw_i].id}
  /\ UNCHANGED <<src_exists, decodable, duration, chunk_ms, overlap_ms, start,
                 idx, paths, api_key_set, transcript, OtherThanTrans>>
  /\ UNCHANGED runs

\* The texts joined by a blank.
JoinPiecesWithBlank(ps) ==
  LET full == Strip(JoinWith(<<" ">>, SelectSeq(ps, LAMBDA t : t # <<>>)))
  IN  IF full = <<>> THEN JNull ELSE JStr(full)

\* Lines 93-94.
JoinPieces(ps) ==
  LET full == Strip(JoinWith(<<"\n">>, SelectSeq(ps, LAMBDA t : t # <<>>)))
  IN  IF full = <<>> THEN JNull ELSE JStr(full)

TwJoin ==
  /\ pc = "tw_loop"
  /\ tw_i > Len(paths)
  /\ transcript' = JoinPieces(pieces)
  /\ Return
  /\ UNCHANGED <<vChunk, api_key_set, tw_i, pieces, requests, OtherThanTrans>>
  /\ UNCHANGED runs

\* Lines 96-98.
TwExcept ==
  /\ pc = "tw_except"
  /\ transcript' = JNull
  /\ Return
  /\ UNCHANGED <<vChunk, api_key_set, tw_i, pieces, requests, OtherThanTrans>>
  /\ UNCHANGED runs

----------------------------------------------------------------------------
(* generate_quiz_with_retry *)

\* Lines 244-255: the first attempt.
GqFirst ==
  /\ pc = "gq_first"
  /\ \E resp \in McqResponses :
       /\ gen_calls' = Append(gen_calls, [kind |-> "mcq", arg |-> 1,
                                          resp |-> resp])
       /\ mcq_log' = Append(mcq_log, [kind |-> "first", resp |-> resp])
       /\ IF AttemptSucceeded(Attempt(resp))
            THEN mcq_data' = Attempt(resp).val /\ Return
            ELSE mcq_data' = mcq_data /\ Goto("gq_retry")
  /\ UNCHANGED <<summaries, final_summary, tf_data, OtherThanGen>>
  /\ UNCHANGED runs

\* Lines 257-274: the stricter retry.
GqRetry ==
  /\ pc = "gq_retry"
  /\ \E resp \in McqResponses :
       /\ gen_calls' = Append(gen_calls, [kind |-> "mcq", arg |-> 2,
                                          resp |-> resp])
       /\ mcq_log' = Append(mcq_log, [kind |-> "strict", resp |-> resp])
       /\ mcq_data' = IF Attempt(resp).exc = "none" THEN Attempt(resp).val
                      ELSE JList(<<>>)
  /\ Return
  /\ UNCHANGED <<summaries, final_summary, tf_data, OtherThanGen>>
  /\ UNCHANGED runs

----------------------------------------------------------------------------
(* parse_and_store_questions *)

\* Lines 312-314: the empty case, and the start of the iteration.
\* A store that keeps one record per lecture, type and question text.
CreatedOrReplaced(stored, rec) ==
  Append(SelectSeq(stored, LAMBDA q : ~(/\ q.lecture = rec.lecture
                                        /\ q.question_type = rec.question_type
                                        /\ q.question_text = rec.question_text)),
         rec)

\* Lines 318 and 330: Question.objects.create adds a row.
Created(stored, rec) == Append(stored, rec)

PsEnter ==
  /\ pc = "ps_enter"
  /\ IF ~Truthy(quiz_data)
       THEN Return /\ UNCHANGED <<ps_items, ps_i>>
     ELSE IF Iterate(quiz_data).exc # "none"
       THEN Raise(Iterate(quiz_data).exc) /\ UNCHANGED <<ps_items, ps_i>>
     ELSE /\ ps_items' = Iterate(quiz_data).val
          /\ ps_i' = 1
          /\ Goto("ps_loop")
  /\ UNCHANGED <<quiz_data, question_type, vPipe, OtherThanStore>>
  /\ UNCHANGED runs

\* Lines 315-338: one item; whatever create() or its arguments raise is
\* caught and the loop goes on.
PsItem ==
  /\ pc = "ps_loop"
  /\ ps_i <= Len(ps_items)
  /\ LET rec == QuestionRecord(ps_items[ps_i], question_type, lecture.id) IN
       \E create_ok \in BOOLEAN :
         questions' = IF rec.exc = "none" /\ create_ok
                        THEN Created(questions, rec.val) ELSE questions
  /\ ps_i' = ps_i + 1
  /\ UNCHANGED <<vCtl, quiz_data, question_type, ps_items, lecture_id, num_mcq,
                 num_tf, lecture, db, OtherThanStore>>
  /\ UNCHANGED runs

PsReturn ==
  /\ pc = "ps_loop"
  /\ ps_i > Len(ps_items)
  /\ Return
  /\ UNCHANGED <<vStore, vPipe, OtherThanStore>>
  /\ UNCHANGED runs

----------------------------------------------------------------------------
(* process_audio_and_generate_quiz *)

ExistingLectures == {1}
RequestIds == {1, 2}
CountChoices == {0, 3}
PipelineDurations == {0, DefaultChunkMs, DefaultChunkMs + 1}

\* The stored lectures before the run.
StoredBefore ==
  [i \in ExistingLectures |-> [transcript |-> <<"o", "l", "d">>,
                               summary |-> <<"o", "l", "d">>]]

\* A save that writes nothing.
SavedNothing(store, lec) == store

\* A save that writes the values to every row.
SavedEveryRow(store, lec) ==
  [l \in DOMAIN store |-> [transcript |-> lec.transcript,
                           summary |-> lec.summary]]

\* lecture.save()
Saved(store, lec) ==
  [store EXCEPT ![lec.id] = [transcript |-> lec.transcript,
                             summary |-> lec.summary]]

\* Lines 345-349.
PEnter ==
  /\ pc = "p_enter"
  /\ IF lecture_id \notin DOMAIN db
       THEN Raise("DoesNotExist") /\ lecture' = lecture
     ELSE /\ lecture' = [id |-> lecture_id,
                         transcript |-> db[lecture_id].transcript,
                         summary |-> db[lecture_id].summary]
          /\ IF create_openai_client(api_key_set).exc # "none"
               THEN Raise(create_openai_client(api_key_set).exc)
               ELSE Call("tw_enter", "p_after_transcribe")
  /\ UNCHANGED <<lecture_id, num_mcq, num_tf, db, questions, vSplit, vChunk,
                 vDecode, vTrans, vGen, vStore>>
  /\ UNCHANGED runs

\* Lines 350-357.
PAfterTranscribe ==
  /\ pc = "p_after_transcribe"
  /\ IF ~Truthy(transcript)
       THEN /\ Return
            /\ UNCHANGED <<lecture, db, text, min_length, max_length>>
     ELSE /\ lecture' = [lecture EXCEPT !.transcript = transcript.v]
          /\ \E save_ok \in BOOLEAN :
               IF save_ok
                 THEN /\ db' = Saved(db, lecture')
                      /\ text' = transcript.v
                      /\ min_length' = DefaultMinLength
                      /\ max_length' = DefaultMaxLength
                      /\ Call("ds_enter", "p_after_split")
                 ELSE /\ Raise("DatabaseError")
                      /\ UNCHANGED <<db, text, min_length, max_length>>
  /\ UNCHANGED <<lecture_id, num_mcq, num_tf, questions, paragraphs, para_i,
                 temp, chunks, vChunk, vDecode, vTrans, vGen, vStore>>
  /\ UNCHANGED runs

\* Line 358: the summary of the next segment.
PSummary ==
  /\ pc = "p_after_split"
  /\ Len(summaries) < Len(chunks)
  /\ \E resp \in SummaryResponses :
       /\ gen_calls' = Append(gen_calls, [kind |-> "summary",
                                          arg |-> Len(summaries) + 1,
                                          resp |-> resp])
       /\ summaries' = Append(summaries,
                              generate_summary_for_chunk(resp, Len(summaries)))
  /\ UNCHANGED <<vCtl, final_summary, mcq_log, mcq_data, tf_data, OtherThanGen>>
  /\ UNCHANGED runs

\* Lines 359-361.
PCombine ==
  /\ pc = "p_after_split"
  /\ Len(summaries) = Len(chunks)
  /\ \E resp \in SummaryResponses, save_ok \in BOOLEAN :
       /\ gen_calls' = Append(gen_calls, [kind |-> "combine", arg |-> 0,
                                          resp |-> resp])
       /\ final_summary' = combine_summaries(resp)
       /\ lecture' = [lecture EXCEPT !.summary = final_summary']
       /\ IF save_ok
            THEN db' = Saved(db, lecture') /\ Goto("p_mcq")
            ELSE db' = db /\ Raise("DatabaseError")
  /\ UNCHANGED <<lecture_id, num_mcq, num_tf, questions, summaries, mcq_log,
                 mcq_data, tf_data, vSplit, vChunk, vDecode, vTrans, vStore>>
  /\ UNCHANGED runs

\* Lines 364-365.
PMcq ==
  /\ pc = "p_mcq"
  /\ IF num_mcq > 0 THEN Call("gq_first", "p_after_mcq") ELSE Goto("p_tf")
  /\ UNCHANGED <<vSplit, vChunk, vDecode, vTrans, vGen, vStore, vPipe>>
  /\ UNCHANGED runs

\* Lines 366-369.
PAfterMcq ==
  /\ pc = "p_after_mcq"
  /\ IF Truthy(mcq_data)
       THEN /\ quiz_data' = mcq_data
            /\ question_type' = "mcq"
            /\ Call("ps_enter", "p_tf")
       ELSE /\ Goto("p_tf")
            /\ UNCHANGED <<quiz_data, question_type>>
  /\ UNCHANGED <<ps_items, ps_i, vPipe, OtherThanStore>>
  /\ UNCHANGED runs

\* Lines 371-372: generate_tf_questions issues its one request.
PTf ==
  /\ pc = "p_tf"
  /\ IF num_tf > 0
       THEN \E resp \in TfResponses :
              /\ gen_calls' = Append(gen_calls, [kind |-> "tf", arg |-> 1,
                                            resp |-> resp])
              /\ tf_data' = generate_tf_questions(resp)
              /\ Goto("p_after_tf")
       ELSE Return /\ UNCHANGED <<gen_calls, tf_data>>
  /\ UNCHANGED <<summaries, final_summary, mcq_log, mcq_data, OtherThanGen>>
  /\ UNCHANGED runs

\* Lines 373-376.
PAfterTf ==
  /\ pc = "p_after_tf"
  /\ IF Truthy(tf_data)
       THEN /\ quiz_data' = tf_data
            /\ question_type' = "tf"
            /\ Call("ps_enter", "p_return")
       ELSE /\ Return
            /\ UNCHANGED <<quiz_data, question_type>>
  /\ UNCHANGED <<ps_items, ps_i, vPipe, OtherThanStore>>
  /\ UNCHANGED runs

\* The end of the function.
PReturn ==
  /\ pc = "p_return"
  /\ Return
  /\ UNCHANGED <<vSplit, vChunk, vDecode, vTrans, vGen, vStore, vPipe>>
  /\ UNCHANGED runs

Init ==
  /\ pc = "p_enter"
  /\ stack = <<>>
  /\ exc = "none"
  /\ lecture_id \in RequestIds
  /\ num_mcq \in CountChoices
  /\ num_tf \in CountChoices
  /\ lecture = JNull
  /\ db = StoredBefore
  /\ questions = <<>>
  /\ api_key_set \in BOOLEAN
  /\ src_exists \in BOOLEAN
  /\ decodable \in BOOLEAN
  /\ duration \in PipelineDurations
  /\ chunk_ms = DefaultChunkMs
  /\ overlap_ms = DefaultOverlapMs
  /\ start = 0
  /\ idx = 0
  /\ paths = <<>>
  /\ files = {}
  /\ tw_i = 1
  /\ pieces = <<>>
  /\ requests = <<>>
  /\ transcript = JNull
  /\ gen_calls = <<>>
  /\ summaries = <<>>
  /\ final_summary = <<>>
  /\ mcq_log = <<>>
  /\ mcq_data = JNull
  /\ tf_data = JNull
  /\ quiz_data = JNull
  /\ question_type = ""
  /\ ps_items = <<>>
  /\ ps_i = 1
  /\ IdleSplit
  /\ IdleDecode
  /\ IdleRuns

Next ==
  \/ PEnter \/ PAfterTranscribe \/ PSummary \/ PCombine \/ PMcq \/ PAfterMcq
  \/ PTf \/ PAfterTf \/ PReturn
  \/ TwEnter \/ TwChunksRet \/ TwRequest \/ TwJoin \/ TwExcept
  \/ PcEnter \/ PcLoop \/ PcReturn
  \/ DsEnter \/ DsLoop \/ DsFlush
  \/ GqFirst \/ GqRetry
  \/ PsEnter \/ PsItem \/ PsReturn

Spec == Init /\ [][Next]_vars

----------------------------------------------------------------------------
(* Properties of the pipeline *)

\* C1 (as stated): process_audio_and_generate_quiz never raises: whatever
\* the lecture id, the requested counts and the failures of the lookup, the
\* client configuration, the services and the record store, no exception
\* leaves the call.
C1_AsStated == pc # "raised"

TranscribeReturned == pc = "p_after_transcribe"

\* What each request contributed to the transcript: its stripped text, and
\* nothing for a request that raised.
RequestTexts ==
  [k \in 1..Len(requests) |->
     IF requests[k].resp.exc = "none" THEN Strip(requests[k].resp.val)
     ELSE <<>>]

\* C2 (as stated): when the request for a chunk raises, transcribe_with_
\* whisper drops only that chunk: every chunk is still requested and the
\* transcript returned is the one joined from the other chunks' texts.
C2_AsStated ==
  (TranscribeReturned
     /\ \E k \in 1..Len(requests) : requests[k].resp.exc # "none")
    => /\ Len(requests) = Len(paths)
       /\ transcript = JoinPieces(RequestTexts)

\* C3 (as stated): on every exit path of transcribe_with_whisper, a request
\* that raised included, no chunk file created by the call remains.
C3_AsStated == TranscribeReturned => files = {}

McqReturned == pc = "p_after_mcq"

McqCalls == SelectSeq(gen_calls, LAMBDA c : c.kind = "mcq")

\* C4: generate_quiz_with_retry returns the records of the first attempt
\* after exactly one generation call when that attempt decodes and
\* normalizes (an empty list included); it makes a second, stricter call
\* exactly when the first attempt failed, and never a third; it returns the
\* records of a successful retry, the empty list when the retry fails too,
\* and it raises nothing.
C4_RetryProtocol ==
  /\ [](McqReturned =>
          /\ Len(mcq_log) \in {1, 2}
          /\ Len(McqCalls) = Len(mcq_log)
          /\ mcq_log[1].kind = "first"
          /\ LET first == Attempt(mcq_log[1].resp) IN
               IF first.exc = "none"
                 THEN Len(mcq_log) = 1 /\ mcq_data = first.val
                 ELSE /\ Len(mcq_log) = 2
                      /\ mcq_log[2].kind = "strict"
                      /\ LET retry == Attempt(mcq_log[2].resp) IN
                           mcq_data = IF retry.exc = "none" THEN retry.val
                                      ELSE JList(<<>>))
  /\ [][(pc \in {"gq_first", "gq_retry"})
          => (pc' \in {"gq_retry", "p_after_mcq"})]_vars

\* The first attempt failed to decode and the retry returned a record.
C4_Witness ==
  /\ McqReturned
  /\ Len(mcq_log) = 2
  /\ mcq_log[1].resp.exc = "none"
  /\ Attempt(mcq_log[1].resp).exc = "ValueError"
  /\ Attempt(mcq_log[2].resp).exc = "none"
  /\ mcq_data.v # <<>>

NonEmptyStr(x) == x.t = "str" /\ x.v # <<>>

\* C9 (as stated): every record generate_quiz_with_retry returns, and every
\* mcq record the pipeline stores, has an answer among A-D and four options
\* that are non-empty strings.
C9_AsStated ==
  /\ McqReturned =>
       \A i \in 1..Len(mcq_data.v) :
         LET q == mcq_data.v[i].v IN
           /\ q["answer"].v \in AnswerSet
           /\ \A k \in 1..4 : NonEmptyStr(q["options"].v[OptionKeys[k]])
  /\ \A i \in 1..Len(questions) :
       questions[i].question_type = "mcq" =>
         /\ questions[i].correct_answer.v \in AnswerSet
         /\ NonEmptyStr(questions[i].option_a)
         /\ NonEmptyStr(questions[i].option_b)
         /\ NonEmptyStr(questions[i].option_c)
         /\ NonEmptyStr(questions[i].option_d)

SummaryCalls == SelectSeq(gen_calls, LAMBDA c : c.kind = "summary")

Combined == \E k \in 1..Len(gen_calls) : gen_calls[k].kind = "combine"

\* C12: the partial summaries are one per segment, in segment order: entry i
\* is the (trimmed) text of the i-th request when it succeeded and otherwise
\* the placeholder that names segment i, counted from 1; a request that
\* fails does not keep the later ones from being made, so that all n
\* entries exist when the summaries are combined.
C12_BestEffortSummaries ==
  /\ [](/\ Len(summaries) = Len(SummaryCalls)
        /\ \A i \in 1..Len(summaries) :
             /\ SummaryCalls[i].arg = i
             /\ summaries[i] =
                  IF SummaryCalls[i].resp.exc = "none"
                    THEN Strip(SummaryCalls[i].resp.val)
                    ELSE Placeholder(i - 1)
        /\ Combined => Len(summaries) = Len(chunks))
  /\ [][(pc = "p_after_split" /\ Len(summaries) < Len(chunks))
          => (pc' = "p_after_split" /\ Len(summaries') = Len(summaries) + 1)]_vars

\* Two segments, the summary of the first failed, that of the second made.
C12_Witness ==
  /\ Combined
  /\ Len(chunks) = 2
  /\ SummaryCalls[1].resp.exc # "none"
  /\ SummaryCalls[2].resp.exc = "none"
  /\ summaries[2] = <<"s">>

InTranscribe ==
  pc \in {"tw_enter", "pc_enter", "pc_loop", "tw_chunks_ret", "tw_loop",
          "tw_except"}

NoTranscript == pc \in {"p_after_transcribe", "done"} /\ transcript = JNull

\* C13: when the source is missing or transcription yields no transcript, the
\* pipeline returns without raising: the stored transcript and summary are
\* what they were, no question is stored, and no summary or quiz request is
\* made.
C13_TranscriptionFailure ==
  /\ [](NoTranscript =>
          /\ db = StoredBefore
          /\ lecture.transcript = StoredBefore[lecture.id].transcript
          /\ lecture.summary = StoredBefore[lecture.id].summary
          /\ questions = <<>>
          /\ gen_calls = <<>>)
  /\ [][InTranscribe => (pc' # "raised")]_vars
  /\ [][(pc = "p_after_transcribe" /\ transcript = JNull)
          => (pc' = "done" /\ UNCHANGED <<db, lecture, questions, gen_calls>>)]_vars
  /\ [][(InTranscribe /\ pc' = "p_after_transcribe"
           /\ (~src_exists \/ \A k \in 1..Len(pieces) : pieces[k] = <<>>))
          => transcript' = JNull]_vars

\* The run ended after a transcription request raised.
C13_Witness ==
  /\ pc = "done"
  /\ transcript = JNull
  /\ src_exists
  /\ Len(requests) = 2
  /\ requests[2].resp.exc # "none"

McqStored == SelectSeq(questions, LAMBDA q : q.question_type = "mcq")

McqStageDone == pc = "p_tf" /\ num_mcq > 0

\* C14 (as stated): when generate_quiz_with_retry returned n records and
\* every one was stored, the n stored mcq questions are, in order, those
\* records: the lecture of the run, and the concept, question text, options
\* A-D, answer and explanation supplied (text fields compared trimmed).
C14_AsStated ==
  (McqStageDone /\ Len(McqStored) = Len(mcq_data.v)) =>
    \A i \in 1..Len(McqStored) :
      LET q == McqStored[i]
          r == mcq_data.v[i].v
      IN  /\ q.lecture = lecture_id
          /\ q.question_text.v = Strip(r["question"].v)
          /\ q.option_a.v = Strip(r["options"].v["A"].v)
          /\ q.option_b.v = Strip(r["options"].v["B"].v)
          /\ q.option_c.v = Strip(r["options"].v["C"].v)
          /\ q.option_d.v = Strip(r["options"].v["D"].v)
          /\ q.correct_answer.v = Strip(r["answer"].v)
          /\ q.explanation.v = Strip(r["explanation"].v)
          /\ q.concept.v = Strip(r["concept"].v)

AllRequestsReturned ==
  \A k \in 1..Len(requests) : requests[k].resp.exc = "none"

NonEmptyTexts == SelectSeq(RequestTexts, LAMBDA t : t # <<>>)

\* C15: when the chunks were prepared and every request succeeded, one
\* request was made per chunk, in index order, and the transcript is the
\* trimmed non-empty texts joined by one newline in that order (None when
\* there is no such text); an empty text adds no line.
C15_TranscriptAssembly ==
  (TranscribeReturned /\ src_exists /\ decodable /\ AllRequestsReturned) =>
    /\ Len(requests) = Len(paths)
    /\ \A k \in 1..Len(requests) :
         requests[k].id = paths[k].id /\ paths[k].id = k - 1
    /\ transcript = IF NonEmptyTexts = <<>> THEN JNull
                    ELSE JStr(JoinWith(<<"\n">>, NonEmptyTexts))

\* Two chunks, both transcribed to a text.
C15_Witness ==
  /\ TranscribeReturned
  /\ Len(requests) = 2
  /\ AllRequestsReturned
  /\ transcript = JStr(<<"a", ".", "\n", "a", ".">>)

TfCalls == SelectSeq(gen_calls, LAMBDA c : c.kind = "tf")

TfReturned == pc = "p_after_tf"

IsTfRecord(x) ==
  /\ x.t = "dict"
  /\ {"question", "answer"} \subseteq DOMAIN x.v

\* C16 (as stated): generate_tf_questions makes one request and raises
\* nothing; when the request or the decoding fails it returns the empty list,
\* and otherwise a list of question records.
C16_AsStated ==
  TfReturned =>
    /\ Len(TfCalls) = 1
    /\ tf_data.t = "list"
    /\ \A i \in 1..Len(tf_data.v) : IsTfRecord(tf_data.v[i])
    /\ (\/ TfCalls[1].resp.exc # "none"
        \/ json_loads(TfCalls[1].resp.val).exc # "none") => tf_data = JList(<<>>)

----------------------------------------------------------------------------
(* Two runs of process_audio_and_generate_quiz side by side, one per        *)
(* lecture.  A step is one access to the record store (get, save, create)  *)
(* or the local work that precedes it; the calls to the services touch     *)
(* nothing the runs share, and are the choice of what they return.         *)
(* runs[r] holds the locals of run r, and with them the run's own account  *)
(* of what it wrote: saved, the row of its last save, and created, the     *)
(* records it had stored.                                                  *)

Runs == {1, 2}

RowsBefore ==
  [l \in Runs |-> [transcript |-> <<"o", "l", "d">>,
                   summary |-> <<"o", "l", "d">>]]

OtherThanRuns ==
  <<vCtl, vSplit, vChunk, vDecode, vTrans, vGen, vStore, lecture_id, num_mcq,
    num_tf, lecture>>

RunStep(r, fields) == runs' = [runs EXCEPT ![r] = fields @@ runs[r]]

\* Line 345; for process_transcript_and_generate_quiz, the lookup by which
\* its caller got the lecture it passes.
RunGet(r) ==
  /\ runs[r].pc = "get"
  /\ RunStep(r, [pc |-> IF runs[r].variant = "audio" THEN "transcribe"
                        ELSE "known",
                 lecture |-> [id |-> runs[r].lecture_id,
                              transcript |-> db[runs[r].lecture_id].transcript,
                              summary |-> db[runs[r].lecture_id].summary]])
  /\ UNCHANGED <<db, questions, OtherThanRuns>>

\* Lines 349-353.
RunTranscribe(r) ==
  /\ runs[r].pc = "transcribe"
  /\ \E t \in {JNull, JStr(<<"a", ".">>)} :
       IF ~Truthy(t) THEN RunStep(r, [pc |-> "done"])
       ELSE RunStep(r, [pc |-> "save_transcript",
                        lecture |-> [runs[r].lecture EXCEPT !.transcript = t.v]])
  /\ UNCHANGED <<db, questions, OtherThanRuns>>

\* Lines 354 and 361: lecture.save().
RunSave(r) ==
  /\ runs[r].pc \in {"save_transcript", "save_summary"}
  /\ \E save_ok \in BOOLEAN :
       IF save_ok
         THEN /\ db' = Saved(db, runs[r].lecture)
              /\ RunStep(r, [pc |-> IF runs[r].pc = "save_transcript"
                                      THEN "summarize" ELSE "generate",
                             saved |-> db'[runs[r].lecture_id]])
         ELSE db' = db /\ RunStep(r, [pc |-> "raised"])
  /\ UNCHANGED <<questions, OtherThanRuns>>

\* Lines 357-360.
RunSummarize(r) ==
  /\ runs[r].pc = "summarize"
  /\ \E summary \in {<<"s">>, FailureSentinel} :
       RunStep(r, [pc |-> "save_summary",
                   lecture |-> [runs[r].lecture EXCEPT !.summary = summary]])
  /\ UNCHANGED <<db, questions, OtherThanRuns>>

\* Lines 364-366 and 371-373: the list the generation call returns.
RunGenerate(r) ==
  /\ runs[r].pc = "generate"
  /\ \E items \in {<<>>, <<ItemValue("I")>>, <<ItemValue("T"), ItemValue("I")>>} :
       RunStep(r, [pc |-> "store", pending |-> items])
  /\ UNCHANGED <<db, questions, OtherThanRuns>>

\* Lines 315-338: one Question.objects.create.
RunCreate(r) ==
  /\ runs[r].pc = "store"
  /\ runs[r].pending # <<>>
  /\ LET rec == QuestionRecord(Head(runs[r].pending), runs[r].stage,
                               runs[r].lecture.id)
     IN  \E create_ok \in BOOLEAN :
           IF rec.exc = "none" /\ create_ok
             THEN /\ questions' = Created(questions, rec.val)
                  /\ RunStep(r, [pending |-> Tail(runs[r].pending),
                                 created |-> Append(runs[r].created, rec.val)])
             ELSE /\ questions' = questions
                  /\ RunStep(r, [pending |-> Tail(runs[r].pending)])
  /\ UNCHANGED <<db, OtherThanRuns>>

\* Lines 371 and 376: on to the true/false questions, or the end.
RunStored(r) ==
  /\ runs[r].pc = "store"
  /\ runs[r].pending = <<>>
  /\ IF runs[r].stage = "mcq"
       THEN RunStep(r, [pc |-> "generate", stage |-> "tf"])
       ELSE RunStep(r, [pc |-> "done"])
  /\ UNCHANGED <<db, questions, OtherThanRuns>>

InitRuns ==
  /\ pc = "idle"
  /\ stack = <<>>
  /\ exc = "none"
  /\ IdleSplit
  /\ IdleChunk
  /\ IdleDecode
  /\ IdleLocals
  /\ db = RowsBefore
  /\ questions = <<>>
  /\ runs = [r \in Runs |-> [pc |-> "get", variant |-> "audio",
                             lecture_id |-> r, lecture |-> JNull,
                             stage |-> "mcq", pending |-> <<>>,
                             saved |-> RowsBefore[r], created |-> <<>>]]

NextRuns ==
  \E r \in Runs :
    \/ RunGet(r) \/ RunTranscribe(r) \/ RunSave(r) \/ RunSummarize(r)
    \/ RunGenerate(r) \/ RunCreate(r) \/ RunStored(r)

SpecRuns == InitRuns /\ [][NextRuns]_vars

QuestionsOf(l) == SelectSeq(questions, LAMBDA q : q.lecture = l)

\* C18: a run writes the row of its own lecture only and stores questions
\* for its own lecture only; under every interleaving of two runs on
\* different lectures, what is stored for a lecture is what its run wrote,
\* as if the run had been alone.
C18_Independence ==
  /\ [](\A r \in Runs :
          /\ db[runs[r].lecture_id] = runs[r].saved
          /\ QuestionsOf(runs[r].lecture_id) = runs[r].created)
  /\ [][\A r \in Runs :
          (runs'[r] = runs[r]) =>
            /\ db'[runs[r].lecture_id] = db[runs[r].lecture_id]
            /\ QuestionsOf(runs[r].lecture_id)' = QuestionsOf(runs[r].lecture_id)]_vars

\* Both runs ended, their questions stored in alternation.
C18_Witness ==
  /\ \A r \in Runs : runs[r].pc = "done"
  /\ Len(questions) >= 3
  /\ questions[1].lecture # questions[2].lecture
  /\ questions[2].lecture # questions[3].lecture
  /\ db[1] # db[2]

----------------------------------------------------------------------------
CombineFailed ==
  \E k \in 1..Len(gen_calls) :
    gen_calls[k].kind = "combine" /\ gen_calls[k].resp.exc # "none"

\* C19 (as stated): when the request of combine_summaries fails, so that the
\* failure sentinel is the final summary, the run makes no generation call
\* for multiple-choice or true/false questions and stores no question.
C19_AsStated ==
  CombineFailed =>
    /\ final_summary = FailureSentinel
    /\ McqCalls = <<>>
    /\ TfCalls = <<>>
    /\ questions = <<>>

----------------------------------------------------------------------------
\* The stages in the order of lines 358-372.
StageRank(kind) ==
  CASE kind = "summary" -> 1 [] kind = "combine" -> 2 [] kind = "mcq" -> 3
    [] kind = "tf" -> 4

TranscriptPersisted ==
  /\ Truthy(transcript)
  /\ lecture_id \in DOMAIN db
  /\ db[lecture_id].transcript = transcript.v

SummaryPersisted ==
  /\ Combined
  /\ lecture_id \in DOMAIN db
  /\ db[lecture_id].summary = final_summary

TfStored == SelectSeq(questions, LAMBDA q : q.question_type = "tf")

\* C21: in every run of process_audio_and_generate_quiz a generation call is
\* issued only from a state in which the stage before it is complete: a
\* summary or combine call only when the transcript of the run is stored, a
\* quiz call only when the combined summary is stored, a question created
\* only when that summary is stored; the calls follow one another in the
\* order summary, combine, mcq, tf, every mcq question is stored before the
\* first tf call, and every tf question after it.
C21_StageOrder ==
  /\ [][(gen_calls' # gen_calls) =>
          LET kind == gen_calls'[Len(gen_calls')].kind IN
            /\ TranscriptPersisted
            /\ kind \in {"mcq", "tf"} => SummaryPersisted
            /\ kind = "tf" => pc \notin {"ps_enter", "ps_loop"}]_vars
  /\ [][(questions' # questions) =>
          /\ SummaryPersisted
          /\ questions' = Append(questions, questions'[Len(questions')])
          /\ LET qtype == questions'[Len(questions')].question_type IN
               /\ qtype = "mcq" => (McqCalls # <<>> /\ TfCalls = <<>>)
               /\ qtype = "tf" => TfCalls # <<>>]_vars
  /\ [](/\ \A i, j \in 1..Len(gen_calls) :
              i < j => StageRank(gen_calls[i].kind) <= StageRank(gen_calls[j].kind)
        /\ questions = McqStored \o TfStored)

\* A run that went through every stage and stored questions of both kinds.
C21_Witness ==
  /\ pc = "done"
  /\ exc = "none"
  /\ Len(SummaryCalls) >= 2
  /\ McqStored # <<>>
  /\ TfStored # <<>>
  /\ db[lecture_id].transcript # StoredBefore[lecture_id].transcript
  /\ db[lecture_id].summary # StoredBefore[lecture_id].summary

----------------------------------------------------------------------------
(* Runs on one lecture, of process_audio_and_generate_quiz or of            *)
(* process_transcript_and_generate_quiz, one after the other or              *)
(* interleaved, over a store that holds a question of an earlier run.        *)

RepeatedLecture == 1

QuestionsBefore ==
  <<QuestionRecord(ItemValue("I"), "mcq", RepeatedLecture).val>>

\* Lines 383-386.
RunKnownTranscript(r) ==
  /\ runs[r].pc = "known"
  /\ IF ~Truthy(JStr(runs[r].lecture.transcript))
       THEN RunStep(r, [pc |-> "done"])
       ELSE RunStep(r, [pc |-> "summarize"])
  /\ UNCHANGED <<db, questions, OtherThanRuns>>

InitRepeat ==
  /\ pc = "idle"
  /\ stack = <<>>
  /\ exc = "none"
  /\ IdleSplit
  /\ IdleChunk
  /\ IdleDecode
  /\ IdleLocals
  /\ \E t \in {<<>>, RowsBefore[RepeatedLecture].transcript} :
       db = [RowsBefore EXCEPT ![RepeatedLecture].transcript = t]
  /\ questions = QuestionsBefore
  /\ \E variant \in [Runs -> {"audio", "transcript"}] :
       runs = [r \in Runs |-> [pc |-> "get", variant |-> variant[r],
                               lecture_id |-> RepeatedLecture,
                               lecture |-> JNull, stage |-> "mcq",
                               pending |-> <<>>,
                               saved |-> db[RepeatedLecture],
                               created |-> <<>>]]

NextRepeat ==
  \E r \in Runs :
    \/ RunGet(r) \/ RunTranscribe(r) \/ RunKnownTranscript(r) \/ RunSave(r)
    \/ RunSummarize(r) \/ RunGenerate(r) \/ RunCreate(r) \/ RunStored(r)

SpecRepeat == InitRepeat /\ [][NextRepeat]_vars

Occurrences(q, x) == Cardinality({i \in 1..Len(q) : q[i] = x})

RowOf(lec) == [transcript |-> lec.transcript, summary |-> lec.summary]

\* C22: no step of a run removes or changes a stored question: a step leaves
\* the questions alone or adds one at the end, so that the stored questions
\* are those stored before together with what each run created, a record
\* created twice being stored twice; a save replaces the transcript and the
\* summary of the lecture by those of the saving run, so that the row is
\* always the one written last.
C22_AppendOnlyLastWrite ==
  /\ [][\/ questions' = questions
        \/ /\ Len(questions') = Len(questions) + 1
           /\ SubSeq(questions', 1, Len(questions)) = questions]_vars
  /\ [](\A x \in {questions[i] : i \in 1..Len(questions)} :
          Occurrences(questions, x) =
            Occurrences(QuestionsBefore, x) + Occurrences(runs[1].created, x)
              + Occurrences(runs[2].created, x))
  /\ [](Len(questions) =
          Len(QuestionsBefore) + Len(runs[1].created) + Len(runs[2].created))
  /\ [][(db' # db) =>
          \E r \in Runs :
            /\ runs'[r] # runs[r]
            /\ db' = [db EXCEPT ![RepeatedLecture] = RowOf(runs[r].lecture)]]_vars
  /\ [](\E r \in Runs : db[RepeatedLecture] = runs[r].saved)

\* Two complete runs that created the same questions, each stored twice
\* beside the one stored before, the second run of the known-transcript
\* kind; the row holds what the second wrote, not what the first did.
C22_Witness ==
  /\ \A r \in Runs : runs[r].pc = "done"
  /\ runs[1].variant = "audio"
  /\ runs[2].variant = "transcript"
  /\ runs[1].created # <<>>
  /\ runs[1].created = runs[2].created
  /\ questions = QuestionsBefore \o runs[1].created \o runs[2].created
  /\ Occurrences(questions, QuestionsBefore[1]) = 3
  /\ db[RepeatedLecture] = runs[2].saved
  /\ db[RepeatedLecture] # runs[1].saved

====
